---- MODULE Spec2Model ----
(***************************************************************************)
(* The PostgreSQL connector of dbhub: PostgresDSNParser and                *)
(* PostgresConnector (src/unnamed/part_000).                               *)
(*                                                                         *)
(* A JavaScript string is a sequence of one-character strings, so that     *)
(* trim, toLowerCase, startsWith and the URL parser are computed character *)
(* by character.  The pg Pool and the database behind it are the           *)
(* environment: a pool hands out its clients one holder at a time, the     *)
(* backend answers a statement with rows or with an error.                 *)
(***************************************************************************)
EXTENDS Integers, Sequences, FiniteSets

VARIABLES
    pool,           \* this.pool: 0 is null, otherwise the id of a pg.Pool
    poolState,      \* pool id -> "none" | "live" | "ending" | "ended"
    pcL,            \* the caller of connect/disconnect: "idle" | "connecting" | "ending"
    lifeResult,     \* how the last completed connect/disconnect ended: "ok" or its error
    lastLifecycle,  \* the last completed connect/disconnect call: "none" | "connect" |
                    \* "connectFailed" | "disconnect" | "disconnectNoop"
    conn,           \* what the completed calls make of the connector: "never" connected,
                    \* "connected" by a connect that succeeded, "disconnected" since
    pc,             \* call slot -> "idle" | "waiting" | "holding" | "done"
    query,          \* call slot -> the text given to executeQuery or validateQuery
                    \* (empty for a catalog query)
    callPool,       \* call slot -> the pool the call asked for a client, 0 for none
    client,         \* call slot -> the client the call holds, 0 for none
    result,         \* call slot -> how the call ended: "ok" or its error
    nStmt,          \* call slot -> statements the call sent to the backend
    nRel,           \* call slot -> times the call released its client
    vq,             \* call slot -> what validateQuery returned to the call
    dsnPc,          \* the DSN parser's caller: "none" | "validated" | "parsed"
    dsnIn,          \* the parts of the DSN given to the parser
    validOut,       \* what isValidDSN did with it
    parseOut        \* what parse did with it

vars == <<pool, poolState, pcL, lifeResult, lastLifecycle, conn, pc, query,
          callPool, client, result, nStmt, nRel, vq, dsnPc, dsnIn, validOut, parseOut>>

connVars == <<pool, poolState, pcL, lifeResult, lastLifecycle, conn>>
callVars == <<pc, query, callPool, client, result, nStmt, nRel, vq>>
dsnVars  == <<dsnPc, dsnIn, validOut, parseOut>>

----------------------------------------------------------------------------
\* Bounds of the model.

\* Pools one connector creates over its life (one per connect that parses).
MaxPools == 3
\* Clients a pool hands out at a time (the pool's max).
PoolSize == 2
\* Call slots: calls of the connector's methods in flight while connect and
\* disconnect run.
NumCalls == 1
\* Concurrent getSchemas/getTables calls of the concurrency specification.
NumConcurrent == 4

----------------------------------------------------------------------------
\* Characters and strings.

LowerSeq == <<"a", "b", "c", "d", "e", "f", "g", "h", "i", "j", "k", "l", "m", "n", "o", "p", "q", "r", "s", "t", "u", "v", "w", "x", "y", "z">>
UpperSeq == <<"A", "B", "C", "D", "E", "F", "G", "H", "I", "J", "K", "L", "M", "N", "O", "P", "Q", "R", "S", "T", "U", "V", "W", "X", "Y", "Z">>
DigitSeq == <<"0", "1", "2", "3", "4", "5", "6", "7", "8", "9">>

Range(s) == {s[i] : i \in 1..Len(s)}
Alpha == Range(LowerSeq) \cup Range(UpperSeq)
Digits == Range(DigitSeq)

\* The white space String.prototype.trim removes (the ASCII part of it).
WhiteSpace == {" ", "\t", "\n", "\r", "\f"}

\* String.prototype.toLowerCase, one character.
LowerChar(c) ==
    IF c \in Range(UpperSeq)
    THEN LowerSeq[CHOOSE i \in 1..Len(UpperSeq) : UpperSeq[i] = c]
    ELSE c

ToLowerCase(s) == [i \in 1..Len(s) |-> LowerChar(s[i])]

RECURSIVE TrimStart(_)
TrimStart(s) ==
    IF s # <<>> /\ Head(s) \in WhiteSpace THEN TrimStart(Tail(s)) ELSE s

RECURSIVE TrimEnd(_)
TrimEnd(s) ==
    IF s # <<>> /\ s[Len(s)] \in WhiteSpace
    THEN TrimEnd(SubSeq(s, 1, Len(s) - 1))
    ELSE s

\* String.prototype.trim
Trim(s) == TrimEnd(TrimStart(s))

\* String.prototype.startsWith
StartsWith(s, p) == Len(s) >= Len(p) /\ SubSeq(s, 1, Len(p)) = p

\* Index of the first character of s that is in cs, 0 when there is none.
FirstOf(s, cs) ==
    IF \E i \in 1..Len(s) : s[i] \in cs
    THEN CHOOSE i \in 1..Len(s) : s[i] \in cs /\ \A j \in 1..(i - 1) : s[j] \notin cs
    ELSE 0

\* Index of the last character of s that is in cs, 0 when there is none.
LastOf(s, cs) ==
    IF \E i \in 1..Len(s) : s[i] \in cs
    THEN CHOOSE i \in 1..Len(s) : s[i] \in cs /\ \A j \in (i + 1)..Len(s) : s[j] \notin cs
    ELSE 0

\* s up to, not including, the first character in cs (all of s when there is none).
Before(s, cs) == IF FirstOf(s, cs) = 0 THEN s ELSE SubSeq(s, 1, FirstOf(s, cs) - 1)

\* s from the first character in cs on (empty when there is none).
From(s, cs) == IF FirstOf(s, cs) = 0 THEN <<>> ELSE SubSeq(s, FirstOf(s, cs), Len(s))

\* String.prototype.substring(n): s without its first n characters.
Substring(s, n) == SubSeq(s, n + 1, Len(s))

\* The pieces of s between the separators sep.
RECURSIVE Split(_, _)
Split(s, sep) ==
    IF FirstOf(s, {sep}) = 0 THEN <<s>>
    ELSE <<Before(s, {sep})>> \o Split(Substring(s, FirstOf(s, {sep})), sep)

\* parseInt of a string of decimal digits.
RECURSIVE ParseInt(_)
ParseInt(s) ==
    IF s = <<>> THEN 0
    ELSE 10 * ParseInt(SubSeq(s, 1, Len(s) - 1))
         + ((CHOOSE i \in 1..Len(DigitSeq) : DigitSeq[i] = s[Len(s)]) - 1)

----------------------------------------------------------------------------
\* validateQuery (part_000:256-266).

Undefined == "undefined"
SelectOnlyMessage == "Only SELECT queries are allowed for security reasons."

select == <<"s", "e", "l", "e", "c", "t">>

\* A validateQuery that compares the text as written: no toLowerCase.
validateQueryCaseSensitive(q) ==
    LET normalizedQuery == Trim(q)
    IN  IF ~StartsWith(normalizedQuery, select)
        THEN [isValid |-> FALSE, message |-> SelectOnlyMessage]
        ELSE [isValid |-> TRUE, message |-> Undefined]

validateQuery(q) ==
    LET normalizedQuery == ToLowerCase(Trim(q))
    IN  IF ~StartsWith(normalizedQuery, select)
        THEN [isValid |-> FALSE, message |-> SelectOnlyMessage]
        ELSE [isValid |-> TRUE, message |-> Undefined]

----------------------------------------------------------------------------
\* new URL(dsn) (part_000:19, 49), for the schemes that are not "special"
\* (http, https, ws, wss, ftp, file): the parser's scheme, authority, host,
\* port, path and query states.

\* Characters a scheme may hold after its first letter.
SchemeChars == Alpha \cup Digits \cup {"+", "-", "."}

\* Characters an opaque host may not hold.
ForbiddenHostChars == {" ", "#", "/", "<", ">", "?", "@", "[", "\\", "]", "^", "|"}

\* Leading and trailing C0 control characters and spaces are dropped, then
\* every tab and newline.
StripInput(s) ==
    SelectSeq(Trim(s), LAMBDA c : c \notin {"\t", "\n", "\r"})

\* A port as the URL serialises it: its digits without leading zeros.
RECURSIVE SerializePort(_)
SerializePort(p) ==
    IF Len(p) > 1 /\ Head(p) = "0" THEN SerializePort(Tail(p)) ELSE p

URLFailure ==
    [ok |-> FALSE, protocol |-> <<>>, username |-> <<>>, password |-> <<>>,
     hostname |-> <<>>, port |-> <<>>, pathname |-> <<>>, search |-> <<>>]

\* The URL record of an input, or URLFailure where the constructor throws.
URL(input) ==
    LET s      == StripInput(input)
        colon  == FirstOf(s, {":"})
        scheme == SubSeq(s, 1, colon - 1)
        rest   == Substring(s, colon)
        hasAuthority == StartsWith(rest, <<"/", "/">>)
        afterSlashes == Substring(rest, 2)
        authority == IF hasAuthority THEN Before(afterSlashes, {"/", "?", "#"}) ELSE <<>>
        tail      == IF hasAuthority THEN From(afterSlashes, {"/", "?", "#"}) ELSE rest
        at        == LastOf(authority, {"@"})
        userinfo  == SubSeq(authority, 1, at - 1)
        hostport  == Substring(authority, at)
        username  == Before(userinfo, {":"})
        password  == Substring(From(userinfo, {":"}), 1)
        host      == Before(hostport, {":"})
        portText  == Substring(From(hostport, {":"}), 1)
        pathname  == Before(tail, {"?", "#"})
        search    == Before(From(tail, {"?"}), {"#"})
    IN  IF \/ colon <= 1
           \/ scheme[1] \notin Alpha
           \/ \E i \in 1..Len(scheme) : scheme[i] \notin SchemeChars
        THEN URLFailure
        ELSE IF \/ at > 0 /\ hostport = <<>>
                \/ FirstOf(hostport, {":"}) > 0 /\ host = <<>>
                \/ \E i \in 1..Len(host) : host[i] \in ForbiddenHostChars
                \/ \E i \in 1..Len(portText) : portText[i] \notin Digits
                \/ ParseInt(portText) > 65535
        THEN URLFailure
        ELSE [ok |-> TRUE,
              protocol |-> ToLowerCase(scheme) \o <<":">>,
              username |-> username,
              password |-> password,
              hostname |-> host,
              port     |-> SerializePort(portText),
              pathname |-> pathname,
              search   |-> IF Len(search) = 1 THEN <<>> ELSE search]

\* url.searchParams: the key/value pairs of the query string, in order.
SearchParams(search) ==
    LET pieces == SelectSeq(Split(Substring(search, 1), "&"), LAMBDA p : p # <<>>)
    IN  [i \in 1..Len(pieces) |->
            [key   |-> Before(pieces[i], {"="}),
             value |-> Substring(From(pieces[i], {"="}), 1)]]

----------------------------------------------------------------------------
\* PostgresDSNParser (part_000:9-55).

DefaultPort == 5432

postgresProtocol   == <<"p", "o", "s", "t", "g", "r", "e", "s", ":">>
postgresqlProtocol == <<"p", "o", "s", "t", "g", "r", "e", "s", "q", "l", ":">>
sslmode == <<"s", "s", "l", "m", "o", "d", "e">>
disable == <<"d", "i", "s", "a", "b", "l", "e">>

NoConfig ==
    [host |-> <<>>, port |-> 0, database |-> <<>>, user |-> <<>>,
     password |-> <<>>, ssl |-> Undefined]

\* What a call did: threw an error, or returned a value.
Returned(v)  == [threw |-> FALSE, error |-> "", value |-> v]
Threw(e, v0) == [threw |-> TRUE, error |-> e, value |-> v0]

isValidDSN(dsn) ==
    LET url == URL(dsn)
    IN  IF ~url.ok THEN Returned(FALSE)
        ELSE Returned(url.protocol = postgresProtocol \/ url.protocol = postgresqlProtocol)

\* config.ssl after the forEach over the first n search parameters.
RECURSIVE SslAfter(_, _)
SslAfter(params, n) ==
    IF n = 0 THEN Undefined
    ELSE IF params[n].key = sslmode
         THEN (IF params[n].value # disable THEN "true" ELSE "false")
         ELSE SslAfter(params, n - 1)

\* The try block of parse: the PoolConfig of a DSN the URL constructor accepts.
ParseBody(dsn) ==
    LET url == URL(dsn)
    IN  IF ~url.ok
        THEN Threw("Failed to parse PostgreSQL DSN", NoConfig)
        ELSE Returned(
               [host     |-> url.hostname,
                port     |-> IF url.port # <<>> THEN ParseInt(url.port) ELSE DefaultPort,
                database |-> Substring(url.pathname, 1),
                user     |-> url.username,
                password |-> url.password,
                ssl      |-> SslAfter(SearchParams(url.search), Len(SearchParams(url.search)))])

\* A parse that skips its isValidDSN guard.
parseNoGuard(dsn) == ParseBody(dsn)

parse(dsn) ==
    IF isValidDSN(dsn).threw
    THEN Threw(isValidDSN(dsn).error, NoConfig)
    ELSE IF ~isValidDSN(dsn).value
    THEN Threw("Invalid PostgreSQL DSN", NoConfig)
    ELSE ParseBody(dsn)

sampleDSN == <<"p", "o", "s", "t", "g", "r", "e", "s", ":", "/", "/", "p", "o", "s", "t", "g", "r", "e", "s", ":", "p", "a", "s", "s", "w", "o", "r", "d", "@", "l", "o", "c", "a", "l", "h", "o", "s", "t", ":", "5", "4", "3", "2", "/", "p", "o", "s", "t", "g", "r", "e", "s", "?", "s", "s", "l", "m", "o", "d", "e", "=", "d", "i", "s", "a", "b", "l", "e">>
getSampleDSN == sampleDSN

----------------------------------------------------------------------------
\* The pg Pool, as the connector uses it.

Pools   == 1..MaxPools
Clients == 1..PoolSize
Slots   == DOMAIN pc

\* A pool that was created and has not ended.
LivePools == {p \in Pools : poolState[p] \in {"live", "ending"}}

\* The calls holding client c of pool p.
Holders(p, c) == {i \in Slots : callPool[i] = p /\ client[i] = c}

\* The clients of pool p that no call holds.
IdleClients(p) == {c \in Clients : Holders(p, c) = {}}

\* The clients of pool p that are checked out.
CheckedOut(p) == {c \in Clients : Holders(p, c) # {}}

\* The id new Pool(config) gets: the first one not yet used.
NewPool == CHOOSE p \in Pools : poolState[p] = "none" /\ \A q \in 1..(p - 1) : poolState[q] # "none"

NotConnectedError  == "Not connected to database"
PoolEndedError     == "Cannot use a pool after calling end on the pool"
ConnectionError    == "connection refused"
BackendError       == "backend error"
InvalidDSNError    == "Invalid PostgreSQL DSN"
QueryFallbackError == "Query validation failed"

\* A pool that hands out any of its clients, held or not.
GrantAny(p) == Clients

\* The clients pool.connect() may resolve with: those not checked out.
Grant(p) == IdleClients(p)

----------------------------------------------------------------------------
\* PostgresConnector: connect and disconnect (part_000:67-87).

\* The DSNs given to connect: the sample DSN and one of a foreign scheme.
ConnectDSNs == {sampleDSN, <<"m", "y", "s", "q", "l", ":", "/", "/", "r", "o", "o", "t", ":", "s", "e", "c", "r", "e", "t", "@", "l", "o", "c", "a", "l", "h", "o", "s", "t", ":", "3", "3", "0", "6", "/", "a", "p", "p">>}

\* this.dsnParser.parse(dsn), for each DSN given to connect.
parsed == [dsn \in ConnectDSNs |-> parse(dsn)]

\* connect, up to its await: parse throws, or the new pool is assigned.
ConnectBegin(dsn) ==
    /\ pcL = "idle"
    /\ IF parsed[dsn].threw
       THEN /\ lifeResult' = parsed[dsn].error
            /\ lastLifecycle' = "connectFailed"
            /\ UNCHANGED <<pool, poolState, pcL>>
       ELSE /\ \E p \in Pools : poolState[p] = "none"
            /\ pool' = NewPool
            /\ poolState' = [poolState EXCEPT ![NewPool] = "live"]
            /\ pcL' = "connecting"
            /\ UNCHANGED <<lifeResult, lastLifecycle>>
    /\ UNCHANGED <<conn, callVars, dsnVars>>

\* connect, after its await: the liveness check got a client and released it,
\* or pool.connect() rejected and the error is rethrown.
ConnectFinish(ok) ==
    /\ pcL = "connecting"
    /\ pcL' = "idle"
    /\ IF ok
       THEN /\ Grant(pool) # {}
            /\ lifeResult' = "ok"
            /\ lastLifecycle' = "connect"
            /\ conn' = "connected"
       ELSE /\ lifeResult' = ConnectionError
            /\ lastLifecycle' = "connectFailed"
            /\ UNCHANGED conn
    /\ UNCHANGED <<pool, poolState>>
    /\ UNCHANGED <<callVars, dsnVars>>

\* disconnect, up to its await: nothing to do without a pool, else pool.end()
\* is called on the assigned pool.
DisconnectBegin ==
    /\ pcL = "idle"
    /\ IF pool = 0
       THEN /\ lifeResult' = "ok"
            /\ lastLifecycle' = "disconnectNoop"
            /\ UNCHANGED <<pool, poolState, pcL>>
       ELSE /\ poolState' = [poolState EXCEPT ![pool] = "ending"]
            /\ pcL' = "ending"
            /\ UNCHANGED <<pool, lifeResult, lastLifecycle>>
    /\ UNCHANGED <<conn, callVars, dsnVars>>

\* disconnect, after its await: pool.end() resolves once every client is back,
\* and this.pool becomes null.
DisconnectEnd ==
    /\ pcL = "ending"
    /\ CheckedOut(pool) = {}
    /\ poolState' = [poolState EXCEPT ![pool] = "ended"]
    /\ pool' = 0
    /\ pcL' = "idle"
    /\ lifeResult' = "ok"
    /\ lastLifecycle' = "disconnect"
    /\ conn' = IF conn = "connected" THEN "disconnected" ELSE conn
    /\ UNCHANGED <<callVars, dsnVars>>

----------------------------------------------------------------------------
\* PostgresConnector: the introspection and query methods (part_000:89-254).

IntrospectionMethods ==
    {"getSchemas", "getTables", "tableExists", "getTableIndexes", "getTableSchema"}

NoQuery == <<>>

\* No validateQuery result: the call is of another method.
NoVq == [isValid |-> FALSE, message |-> "none"]

\* The texts given to executeQuery.
CallQueries == {<<"S", "E", "L", "E", "C", "T", " ", "1">>, <<"D", "E", "L", "E", "T", "E", " ", "F", "R", "O", "M", " ", "t">>}

\* Call i ends with result r, holding nothing.
Finish(i, r) ==
    /\ pc' = [pc EXCEPT ![i] = "done"]
    /\ result' = [result EXCEPT ![i] = r]
    /\ callPool' = [callPool EXCEPT ![i] = 0]
    /\ client' = [client EXCEPT ![i] = 0]

\* Call i awaits this.pool.connect(), which rejects at once on a pool that is
\* ending or ended.
AskPool(i) ==
    IF poolState[pool] # "live"
    THEN Finish(i, PoolEndedError)
    ELSE /\ pc' = [pc EXCEPT ![i] = "waiting"]
         /\ callPool' = [callPool EXCEPT ![i] = pool]
         /\ UNCHANGED <<result, client>>

\* A method's start: the call is noted, with nothing sent or released yet.
Enter(i, q) ==
    /\ pc[i] = "idle"
    /\ query' = [query EXCEPT ![i] = q]
    /\ UNCHANGED <<nStmt, nRel, vq>>
    /\ UNCHANGED <<connVars, dsnVars>>

\* An introspection method, up to its first await.  Its statement is a fixed
\* catalog query; the methods differ in that text alone.
Introspect(i) ==
    /\ Enter(i, NoQuery)
    /\ IF pool = 0 THEN Finish(i, NotConnectedError) ELSE AskPool(i)

getSchemas(i)      == Introspect(i)
getTables(i)       == Introspect(i)
tableExists(i)     == Introspect(i)
getTableIndexes(i) == Introspect(i)
getTableSchema(i)  == Introspect(i)

\* An executeQuery that asks the pool without validating the text.
executeQueryNoValidation(i, q) ==
    /\ Enter(i, q)
    /\ IF pool = 0 THEN Finish(i, NotConnectedError) ELSE AskPool(i)

\* executeQuery, up to its first await.
executeQuery(i, q) ==
    /\ Enter(i, q)
    /\ IF pool = 0
       THEN Finish(i, NotConnectedError)
       ELSE IF ~validateQuery(q).isValid
       THEN Finish(i, IF validateQuery(q).message # Undefined
                      THEN validateQuery(q).message
                      ELSE QueryFallbackError)
       ELSE AskPool(i)

\* pool.connect() resolves with a client, and the call sends its one statement.
Acquire(i) ==
    /\ pc[i] = "waiting"
    /\ poolState[callPool[i]] = "live"
    /\ \E c \in Grant(callPool[i]) :
          client' = [client EXCEPT ![i] = c]
    /\ pc' = [pc EXCEPT ![i] = "holding"]
    /\ nStmt' = [nStmt EXCEPT ![i] = @ + 1]
    /\ UNCHANGED <<query, callPool, result, nRel, vq>>
    /\ UNCHANGED <<connVars, dsnVars>>

\* pool.connect() rejects: the backend cannot be reached.  The call holds
\* no client and ends with the error.
AcquireFail(i) ==
    /\ pc[i] = "waiting"
    /\ poolState[callPool[i]] = "live"
    /\ Finish(i, ConnectionError)
    /\ UNCHANGED <<query, nStmt, nRel, vq>>
    /\ UNCHANGED <<connVars, dsnVars>>

\* A call that releases its client after the return only: not when the
\* statement raised.
QueryReturnNoFinally(i, ok) ==
    /\ pc[i] = "holding"
    /\ pc' = [pc EXCEPT ![i] = "done"]
    /\ result' = [result EXCEPT ![i] = IF ok THEN "ok" ELSE BackendError]
    /\ IF ok
       THEN /\ client' = [client EXCEPT ![i] = 0]
            /\ callPool' = [callPool EXCEPT ![i] = 0]
            /\ nRel' = [nRel EXCEPT ![i] = @ + 1]
       ELSE UNCHANGED <<client, callPool, nRel>>
    /\ UNCHANGED <<query, nStmt, vq>>
    /\ UNCHANGED <<connVars, dsnVars>>

\* A call that drops the connector's pool when its statement raised.
QueryReturnTeardown(i, ok) ==
    /\ pc[i] = "holding"
    /\ Finish(i, IF ok THEN "ok" ELSE BackendError)
    /\ nRel' = [nRel EXCEPT ![i] = @ + 1]
    /\ pool' = IF ok THEN pool ELSE 0
    /\ UNCHANGED <<query, nStmt, vq>>
    /\ UNCHANGED <<poolState, pcL, lifeResult, lastLifecycle, conn, dsnVars>>

\* The statement returns rows or raises; the finally block releases the client.
QueryReturn(i, ok) ==
    /\ pc[i] = "holding"
    /\ Finish(i, IF ok THEN "ok" ELSE BackendError)
    /\ nRel' = [nRel EXCEPT ![i] = @ + 1]
    /\ UNCHANGED <<query, nStmt, vq>>
    /\ UNCHANGED <<connVars, dsnVars>>

\* The caller takes the call's outcome; the slot is free for the next call.
Return(i) ==
    /\ pc[i] = "done"
    /\ pc' = [pc EXCEPT ![i] = "idle"]
    /\ query' = [query EXCEPT ![i] = NoQuery]
    /\ result' = [result EXCEPT ![i] = "none"]
    /\ nStmt' = [nStmt EXCEPT ![i] = 0]
    /\ nRel' = [nRel EXCEPT ![i] = 0]
    /\ vq' = [vq EXCEPT ![i] = NoVq]
    /\ UNCHANGED <<callPool, client>>
    /\ UNCHANGED <<connVars, dsnVars>>

\* validateQuery called by a caller: it returns at once, with its verdict.
ValidateQuery(i, q) ==
    /\ pc[i] = "idle"
    /\ pc' = [pc EXCEPT ![i] = "done"]
    /\ query' = [query EXCEPT ![i] = q]
    /\ vq' = [vq EXCEPT ![i] = validateQuery(q)]
    /\ result' = [result EXCEPT ![i] = "ok"]
    /\ UNCHANGED <<callPool, client, nStmt, nRel>>
    /\ UNCHANGED <<connVars, dsnVars>>

----------------------------------------------------------------------------
\* The connector: one caller of connect/disconnect, NumCalls calls in flight.

NoParts ==
    [scheme |-> <<>>, sep |-> <<>>, authority |-> <<>>, path |-> <<>>, search |-> <<>>]

InitSlots(n) ==
    /\ pc = [i \in 1..n |-> "idle"]
    /\ query = [i \in 1..n |-> NoQuery]
    /\ callPool = [i \in 1..n |-> 0]
    /\ client = [i \in 1..n |-> 0]
    /\ result = [i \in 1..n |-> "none"]
    /\ nStmt = [i \in 1..n |-> 0]
    /\ nRel = [i \in 1..n |-> 0]
    /\ vq = [i \in 1..n |-> NoVq]

InitParser ==
    /\ dsnPc = "none"
    /\ dsnIn = NoParts
    /\ validOut = Returned(FALSE)
    /\ parseOut = Returned(NoConfig)

\* The connector as constructed: this.pool is null.
InitConnector ==
    /\ pool = 0
    /\ poolState = [p \in Pools |-> "none"]
    /\ pcL = "idle"
    /\ lifeResult = "none"
    /\ lastLifecycle = "none"
    /\ conn = "never"

Init == InitConnector /\ InitSlots(NumCalls) /\ InitParser

Lifecycle ==
    \/ \E dsn \in ConnectDSNs : ConnectBegin(dsn)
    \/ \E ok \in BOOLEAN : ConnectFinish(ok)
    \/ DisconnectBegin
    \/ DisconnectEnd

MethodStart ==
    \/ \E i \in Slots : getSchemas(i)
    \/ \E i \in Slots : getTables(i)
    \/ \E i \in Slots : tableExists(i)
    \/ \E i \in Slots : getTableIndexes(i)
    \/ \E i \in Slots : getTableSchema(i)
    \/ \E i \in Slots, q \in CallQueries : executeQuery(i, q)

MethodStep ==
    \/ MethodStart
    \/ \E i \in Slots : Acquire(i)
    \/ \E i \in Slots : AcquireFail(i)
    \/ \E i \in Slots, ok \in BOOLEAN : QueryReturn(i, ok)

Next ==
    \/ Lifecycle
    \/ MethodStep
    \/ \E i \in Slots, q \in CallQueries : ValidateQuery(i, q)
    \/ \E i \in Slots : Return(i)

Spec == Init /\ [][Next]_vars

----------------------------------------------------------------------------
\* validateQuery on its own: one caller, every text of Queries, on a connector
\* in any state of its lifecycle.

Prefixes == {<<>>, <<" ">>, <<" ", " ">>, <<"\n", "\t">>}
Keywords ==
    {<<"s", "e", "l", "e", "c", "t">>, <<"S", "E", "L", "E", "C", "T">>, <<"S", "e", "L", "e", "C", "t">>, <<"s", "e", "l", "e", "c", "t", "x">>, <<"s", "e", "l", "e", "c">>, <<"e", "l", "e", "c", "t">>,
     <<"s", "e", "l", " ", "e", "c", "t">>, <<"d", "e", "l", "e", "t", "e">>, <<"D", "E", "L", "E", "T", "E">>, <<"i", "n", "s", "e", "r", "t">>, <<"w", "i", "t", "h">>, <<>>}
Suffixes == {<<>>, <<" ", "1">>, <<" ", "*", " ", "f", "r", "o", "m", " ", "t", ";", " ", "d", "r", "o", "p", " ", "t", "a", "b", "l", "e", " ", "t">>, <<" ", "\n">>}

Queries == {p \o k \o s : p \in Prefixes, k \in Keywords, s \in Suffixes}

InitVQ == InitConnector /\ InitSlots(1) /\ InitParser

NextVQ ==
    \/ \E i \in Slots, q \in Queries : ValidateQuery(i, q)
    \/ \E i \in Slots : Return(i)
    \/ Lifecycle

SpecVQ == InitVQ /\ [][NextVQ]_vars

----------------------------------------------------------------------------
\* The DSN parser on its own: isValidDSN, then parse, on every DSN put
\* together from the parts below.

PgSchemes        == {<<"p", "o", "s", "t", "g", "r", "e", "s">>, <<"p", "o", "s", "t", "g", "r", "e", "s", "q", "l">>, <<"P", "O", "S", "T", "G", "R", "E", "S">>, <<"P", "o", "s", "t", "g", "r", "e", "S", "Q", "L">>, <<" ", "p", "o", "s", "t", "g", "r", "e", "s">>}
ForeignSchemes   == {<<"m", "y", "s", "q", "l">>, <<"p", "g">>, <<"p", "o", "s", "t", "g", "r", "e", "s", "q", "l", "s">>}
MalformedSchemes == {<<>>, <<"1", "p", "o", "s", "t", "g", "r", "e", "s">>, <<"p", "o", "s", "t", " ", "g", "r", "e", "s">>}

AuthoritySep  == <<":", "/", "/">>
OpaqueSep     == <<":">>
MalformedSeps == {<<"/", "/">>, <<";", "/", "/">>}

GoodAuthorities ==
    {<<>>, <<"l", "o", "c", "a", "l", "h", "o", "s", "t">>, <<"p", "o", "s", "t", "g", "r", "e", "s", ":", "p", "a", "s", "s", "w", "o", "r", "d", "@", "l", "o", "c", "a", "l", "h", "o", "s", "t", ":", "5", "4", "3", "2">>, <<"d", "b", ".", "e", "x", "a", "m", "p", "l", "e", ".", "c", "o", "m", ":">>,
     <<"u", "@", "h", ":", "0", "6", "5", "5", "3", "5">>}
BadAuthorities ==
    {<<"h", ":", "9", "9", "9", "9", "9">>, <<"h", ":", "5", "4", "x", "2">>, <<"u", ":", "p", "@">>, <<":", "5", "4", "3", "2">>, <<"h", " ", "o", "s", "t">>}

Paths    == {<<>>, <<"/", "p", "o", "s", "t", "g", "r", "e", "s">>}
Searches == {<<>>, <<"?", "s", "s", "l", "m", "o", "d", "e", "=", "d", "i", "s", "a", "b", "l", "e">>, <<"?", "a", "p", "p", "l", "i", "c", "a", "t", "i", "o", "n", "_", "n", "a", "m", "e", "=", "x", "&", "s", "s", "l", "m", "o", "d", "e", "=", "r", "e", "q", "u", "i", "r", "e">>}

DSNParts ==
    [scheme    : PgSchemes \cup ForeignSchemes \cup MalformedSchemes,
     sep       : {AuthoritySep, OpaqueSep} \cup MalformedSeps,
     authority : GoodAuthorities \cup BadAuthorities,
     path      : Paths,
     search    : Searches]

\* The DSN string made of the parts.
DSNText(d) == d.scheme \o d.sep \o d.authority \o d.path \o d.search

IsValidDSN(d) ==
    /\ dsnPc = "none"
    /\ dsnPc' = "validated"
    /\ dsnIn' = d
    /\ validOut' = isValidDSN(DSNText(d))
    /\ parseOut' = Returned(NoConfig)
    /\ UNCHANGED <<connVars, callVars>>

Parse ==
    /\ dsnPc = "validated"
    /\ dsnPc' = "parsed"
    /\ parseOut' = parse(DSNText(dsnIn))
    /\ UNCHANGED <<dsnIn, validOut>>
    /\ UNCHANGED <<connVars, callVars>>

NextDSN ==
    \/ \E d \in DSNParts : IsValidDSN(d)
    \/ Parse

SpecDSN == Init /\ [][NextDSN]_vars

----------------------------------------------------------------------------
\* NumConcurrent concurrent calls of getSchemas and getTables on a connector
\* that connect has connected, with a backend that answers every statement.

InitConcurrent ==
    /\ pool = 1
    /\ poolState = [p \in Pools |-> IF p = 1 THEN "live" ELSE "none"]
    /\ pcL = "idle"
    /\ lifeResult = "ok"
    /\ lastLifecycle = "connect"
    /\ conn = "connected"
    /\ InitSlots(NumConcurrent)
    /\ InitParser

NextConcurrent ==
    \/ \E i \in Slots : getSchemas(i)
    \/ \E i \in Slots : getTables(i)
    \/ \E i \in Slots : Acquire(i)
    \/ \E i \in Slots : QueryReturn(i, TRUE)

\* The event loop runs every continuation that is ready: a call whose client
\* is granted goes on, an answered statement returns.
FairConcurrent ==
    \A i \in 1..NumConcurrent :
        WF_vars(Acquire(i)) /\ WF_vars(QueryReturn(i, TRUE))

SpecConcurrent == InitConcurrent /\ [][NextConcurrent]_vars /\ FairConcurrent

----------------------------------------------------------------------------
\* The connector's two states, as its callers see them.

\* Disconnected: no connect has succeeded since the connector was made or
\* last disconnected (a connect that fails leaves it Disconnected), and no
\* connect or disconnect is in flight.
Disconnected == pcL = "idle" /\ conn # "connected"

\* Connected: a connect has succeeded and no disconnect has completed since,
\* and no connect or disconnect is in flight.
Connected == pcL = "idle" /\ conn = "connected"

\* The connector never connected, or the last completed connect/disconnect
\* call was a disconnect; no such call is in flight.
NeverConnectedOrDisconnected ==
    /\ pcL = "idle"
    /\ conn = "never" \/ lastLifecycle \in {"disconnect", "disconnectNoop"}

\* Call i is a call of executeQuery.
IsExecuteQuery(i) == query[i] # NoQuery /\ vq[i] = NoVq

\* Slot i starts one of the six introspection and query methods.
StartsMethod(i) ==
    \/ getSchemas(i)
    \/ getTables(i)
    \/ tableExists(i)
    \/ getTableIndexes(i)
    \/ getTableSchema(i)
    \/ \E q \in CallQueries : executeQuery(i, q)

\* No call is in flight.
Quiescent == \A i \in Slots : pc[i] \in {"idle", "done"}

----------------------------------------------------------------------------
\* C1: on a Disconnected connector (never connected, or the last completed
\* lifecycle call was disconnect), each of getSchemas, getTables, tableExists,
\* getTableIndexes, getTableSchema and executeQuery fails with
\* 'Not connected to database' and asks no pool for a connection.
C1_DisconnectedCallsFail ==
    [][\A i \in Slots :
          (NeverConnectedOrDisconnected /\ StartsMethod(i)) =>
             /\ pc'[i] = "done"
             /\ result'[i] = NotConnectedError
             /\ callPool'[i] = 0
             /\ client'[i] = 0
             /\ nStmt'[i] = 0]_vars

\* C2: in every reachable state at most one pool created by the connector
\* is live (created and not yet ended).
C2_AtMostOneLivePool == Cardinality(LivePools) <= 1

\* C3: a call that acquired a connection ran exactly one statement on it and
\* released it exactly once by the time it completes, whether the statement
\* succeeded or raised; a call in flight has released nothing yet; and when
\* no call is in flight no connection is checked out.
C3_ReleasedExactlyOnce ==
    /\ \A i \in Slots :
          /\ pc[i] = "done" /\ nStmt[i] > 0 => nStmt[i] = 1 /\ nRel[i] = 1 /\ client[i] = 0
          /\ pc[i] = "done" /\ nStmt[i] = 0 => nRel[i] = 0 /\ client[i] = 0
          /\ pc[i] = "holding" => nStmt[i] = 1 /\ nRel[i] = 0 /\ client[i] # 0
    /\ Quiescent => \A p \in Pools : CheckedOut(p) = {}

\* A call whose statement raised a backend error has completed, its client
\* released once, and nothing is checked out of the pool it asked.
C3_Witness ==
    /\ Quiescent
    /\ pool # 0 /\ poolState[pool] = "live" /\ CheckedOut(pool) = {}
    /\ \E i \in Slots :
          pc[i] = "done" /\ result[i] = BackendError /\ nStmt[i] = 1 /\ nRel[i] = 1

\* C4 as stated: every executeQuery of a text that validateQuery rejects fails
\* with the validation message, with nothing acquired or sent.
C4_RejectedFailsWithValidationMessage ==
    \A i \in Slots :
       (pc[i] = "done" /\ IsExecuteQuery(i) /\ ~validateQuery(query[i]).isValid) =>
          result[i] = SelectOnlyMessage /\ nStmt[i] = 0

\* C4, amended: executeQuery first fails with 'Not connected to database' when
\* no pool is assigned, whatever the text; with a pool assigned it runs
\* validateQuery before it asks the pool: a text that validateQuery rejects
\* fails with the validation message, nothing acquired, nothing sent.  In every
\* state a statement of executeQuery has reached the backend only if
\* validateQuery accepted its text.
C4_ValidatedBeforeThePool ==
    [][\A i \in Slots :
          /\ \A q \in CallQueries :
                (executeQuery(i, q) /\ ~validateQuery(q).isValid) =>
                   /\ pc'[i] = "done"
                   /\ result'[i] = IF pool = 0 THEN NotConnectedError ELSE SelectOnlyMessage
                   /\ callPool'[i] = 0
                   /\ client'[i] = 0
                   /\ nStmt'[i] = 0
          /\ (IsExecuteQuery(i) /\ nStmt[i] = 0 /\ nStmt'[i] > 0) =>
                validateQuery(query[i]).isValid]_vars

\* On a connector with a pool assigned, an executeQuery of a rejected text
\* has failed with the validation message, nothing sent.
C4_Witness ==
    /\ pool # 0
    /\ lastLifecycle = "connect"
    /\ \E i \in Slots :
          /\ pc[i] = "done" /\ IsExecuteQuery(i)
          /\ ~validateQuery(query[i]).isValid
          /\ result[i] = SelectOnlyMessage /\ nStmt[i] = 0

\* The text, after any leading white space, begins with the six letters of
\* "select", each in either case.
selectUpper == <<"S", "E", "L", "E", "C", "T">>
SelectText(q) ==
    \E k \in 0..Len(q) :
       /\ \A j \in 1..k : q[j] \in WhiteSpace
       /\ Len(q) >= k + Len(select)
       /\ \A j \in 1..Len(select) : q[k + j] \in {select[j], selectUpper[j]}

\* C5: validateQuery returns isValid = true exactly when the text, trimmed and
\* lower-cased, starts with "select"; every other text is rejected with
\* isValid = false and a message; the call changes no state of the connector.
C5_ValidateQuerySelectOnly ==
    [][\A i \in Slots :
          (pc[i] = "idle" /\ ValidateQuery(i, query'[i])) =>
             /\ vq'[i].isValid <=> SelectText(query'[i])
             /\ vq'[i].isValid => vq'[i].message = Undefined
             /\ ~vq'[i].isValid => vq'[i].message = SelectOnlyMessage
             /\ UNCHANGED <<connVars, callPool, client, nStmt, nRel>>]_vars

\* validateQuery has accepted "  SELECT 1" on a connector with a pool assigned.
C5_Witness ==
    /\ pool # 0
    /\ \E i \in Slots :
          /\ pc[i] = "done"
          /\ query[i] = <<" ", " ">> \o selectUpper \o <<" ", "1">>
          /\ vq[i].isValid

\* The DSN is one the URL constructor accepts, and its scheme is postgres or
\* postgresql: told from the parts the DSN is made of.
ExpectedValid(d) ==
    /\ d.scheme \in PgSchemes
    /\ \/ d.sep = OpaqueSep
       \/ d.sep = AuthoritySep /\ d.authority \in GoodAuthorities

\* C6: isValidDSN never throws, and parse agrees with it: for a well-formed
\* DSN (one the URL constructor accepts) of scheme postgres: or postgresql:,
\* isValidDSN returns true and parse returns a PoolConfig; for a malformed DSN
\* or one of another scheme, isValidDSN returns false and parse fails with the
\* invalid-DSN error and yields no PoolConfig.
C6_ParseAgreesWithIsValidDSN ==
    /\ dsnPc # "none" =>
          /\ ~validOut.threw
          /\ validOut.value <=> ExpectedValid(dsnIn)
    /\ dsnPc = "parsed" =>
          IF ExpectedValid(dsnIn)
          THEN ~parseOut.threw /\ parseOut.value # NoConfig
          ELSE parseOut.threw /\ parseOut.error = InvalidDSNError /\ parseOut.value = NoConfig

\* parse has rejected a DSN of scheme postgres whose port the URL constructor
\* refuses, and isValidDSN has returned false for it.
C6_Witness ==
    /\ dsnPc = "parsed"
    /\ dsnIn.scheme \in PgSchemes /\ dsnIn.sep = AuthoritySep
    /\ dsnIn.authority \in BadAuthorities
    /\ ~validOut.value
    /\ parseOut.threw

\* C7: disconnect is idempotent: on a Disconnected connector it is a no-op
\* that calls nothing on any pool, leaves the state as it was and raises no
\* error; on a Connected one it ends the assigned pool and leaves the
\* connector Disconnected, without a pool; end() is called on live pools only.
C7_DisconnectIdempotent ==
    [][/\ (Disconnected /\ DisconnectBegin) =>
             /\ UNCHANGED <<pool, poolState>>
             /\ pcL' = "idle"
             /\ lifeResult' = "ok"
       /\ (Connected /\ DisconnectBegin) =>
             /\ pool # 0 /\ poolState[pool] = "live"
             /\ poolState' = [poolState EXCEPT ![pool] = "ending"]
             /\ pcL' = "ending"
       /\ (pcL = "ending" /\ pcL' = "idle") =>
             /\ pool' = 0
             /\ poolState' = [poolState EXCEPT ![pool] = "ended"]
             /\ lifeResult' = "ok"
             /\ Disconnected'
       /\ \A p \in Pools :
             (poolState[p] # "ending" /\ poolState'[p] = "ending") => poolState[p] = "live"]_vars

\* No two calls hold the same client of the same pool.
NoSharedClient ==
    \A i, j \in Slots :
       (i # j /\ client[i] # 0 /\ callPool[i] = callPool[j]) => client[i] # client[j]

\* C8: for NumConcurrent concurrent calls of getSchemas and getTables on a
\* Connected connector with a pool of PoolSize clients: no client is held by
\* two calls at once, no call fails, every client is back in the pool when no
\* call is in flight, and every call that was started completes successfully.
C8_ConcurrentCallsComplete ==
    /\ [](/\ NoSharedClient
          /\ \A i \in Slots : pc[i] = "done" => result[i] = "ok"
          /\ Quiescent => \A p \in Pools : CheckedOut(p) = {})
    /\ \A i \in 1..NumConcurrent :
          (pc[i] = "waiting") ~> (pc[i] = "done" /\ result[i] = "ok")

\* Every client of the pool is held, each by one call, while another call
\* waits for one.
C8_Witness ==
    /\ IdleClients(pool) = {}
    /\ \E i \in Slots : pc[i] = "waiting"
    /\ Cardinality({i \in Slots : pc[i] = "holding"}) = PoolSize

\* C9: a connect that fails leaves the connector as it was: the pool the
\* failed call created is neither assigned nor live afterwards, and a failed
\* parse changes no pool.
C9_FailedConnectLeavesNoPool ==
    [][/\ (pcL = "connecting" /\ pcL' = "idle" /\ lastLifecycle' = "connectFailed") =>
             /\ pool' # pool
             /\ poolState'[pool] \notin {"live", "ending"}
       /\ (pcL = "idle" /\ pcL' = "idle" /\ lastLifecycle' = "connectFailed") =>
             UNCHANGED <<pool, poolState>>]_vars

\* C10: no step of getSchemas, getTables, tableExists, getTableIndexes,
\* getTableSchema, executeQuery or validateQuery changes the connector's
\* lifecycle state: the assigned pool and every pool's state are the same
\* after the step, on success and on failure.
C10_MethodsKeepThePool ==
    [][(MethodStep \/ \E i \in Slots : ValidateQuery(i, query'[i])) =>
          UNCHANGED connVars]_vars

\* A statement has raised a backend error and the connector is still
\* Connected, its pool assigned and live.
C10_Witness ==
    /\ Connected
    /\ pool # 0 /\ poolState[pool] = "live"
    /\ \E i \in Slots : pc[i] = "done" /\ result[i] = BackendError

====
